---- MODULE Spec2Model ----
(***************************************************************************)
(* Model of scripts/kalshi_crawl_and_fanout.py: the rollover tracker, the  *)
(* per-repo writer (RepoWriter), the bounded pool of writers               *)
(* (WriterManager), the git commit/push step, the persisted crawl state    *)
(* and the paginated crawl loops of main().                                *)
(*                                                                         *)
(* A git working copy is modelled by two trees (path -> content, 0 means   *)
(* "no such file"): wt, the files on disk, and head, the tree of the local *)
(* branch.  remote[r] is the tree of the branch on the backend.  The index *)
(* differs from head only inside git_commit_push_if_changed.               *)
(***************************************************************************)
EXTENDS Integers, Sequences, FiniteSets, TLC

\* ------------------------------------------------------------------ bounds
MaxIndex == 2
MaxOps == 4
MaxItems == 2
MaxPages == 1
MaxRuns == 1
MaxPending == 3
MaxClock == 2
MaxWrites == 6
MaxDocs == 3                    \* distinct state documents
MaxChunks == 2                  \* chunks json.dump writes per document

\* ------------------------------------------------- configuration constants
COMMIT_EVERY_FILES == 2
MAX_OPEN_REPOS == 2
MAX_FILES_PER_REPO == 2
PUSH_ATTEMPTS == 3
CREATE_RETRIES == 2
TIME_BUDGET == 2                \* the run's wall-clock budget, in ticks
SAFETY_BUFFER == 1              \* no request is to be issued in the last ticks

\* ------------------------------------------------------------------ universe
COUNTS == 0
Paths == {1, 2}                 \* file names (relative paths) of the model
AllPaths == {COUNTS} \cup Paths
Contents == {1}                 \* file contents of the model (0: no file)
Kinds == {"Events", "Markets"}
Scopes == {"Current"}
SERIES_REPO == <<"Series">>
Repos == {SERIES_REPO} \cup {<<k, s, i>> : k \in Kinds, s \in Scopes, i \in 1..MaxIndex}
EmptyTree == [p \in AllPaths |-> 0]

SetOf(s) == {s[i] : i \in 1..Len(s)}

RECURSIVE RemoveAll(_, _)
RemoveAll(s, x) ==
    IF s = <<>> THEN <<>>
    ELSE IF Head(s) = x THEN RemoveAll(Tail(s), x)
    ELSE <<Head(s)>> \o RemoveAll(Tail(s), x)

\* list.remove(x): removes the first occurrence only
RECURSIVE RemoveFirst(_, _)
RemoveFirst(s, x) ==
    IF s = <<>> THEN <<>>
    ELSE IF Head(s) = x THEN Tail(s)
    ELSE <<Head(s)>> \o RemoveFirst(Tail(s), x)

\* the order-preserving de-duplication loop of maybe_flush
RECURSIVE UniquePaths(_)
UniquePaths(s) ==
    IF s = <<>> THEN <<>>
    ELSE <<Head(s)>> \o UniquePaths(RemoveAll(Tail(s), Head(s)))

\* One event of an operation's trace: ev is "flush" (a maybe_flush call;
\* n, paths: pending count and pending paths at entry), "discard" (rmtree of a working copy; n: pending
\* count left), "evict", "open", "bump" (n: the new index), "write", "fetch"
\* (a page request; n: the cursor sent, at: the clock when it was issued) or
\* "page" (the save after a page; n: the number of records of the page).
Ev(e, r, ok, n) ==
    [ev |-> e, repo |-> r, ok |-> ok, n |-> n, force |-> FALSE, gate |-> FALSE,
     changed |-> FALSE, attempts |-> 0, pulls |-> 0, paths |-> {}, at |-> 0]

FlushEv(r, w, force, m) ==
    [ev |-> "flush", repo |-> r, ok |-> (m.raised = "none"), n |-> Len(w.pending),
     force |-> force, gate |-> m.gate, changed |-> m.changed,
     attempts |-> m.attempts, pulls |-> m.pulls, paths |-> SetOf(w.pending), at |-> 0]

VARIABLES
    writers,      \* WriterManager.writers: a function on the keys of the dict
    open_order,   \* WriterManager.open_order
    remote,       \* backend tree of every repo
    state,        \* the in-memory crawl state dict of main()
    persisted,    \* .state/kalshi_state.json: [exists, st]
    pc,           \* position of main()
    loc,          \* locals of the running crawl function: cat, cursor, page, total
    buf,          \* the fetched page: items not yet yielded, all items, next_cursor
    last,         \* what the last operation did: its name, argument, events, exception
    lastGet,      \* logical time of the most recent get of each repo
    covered,      \* per category: the records of the pages before the persisted cursor
    nops,         \* number of operations performed (pool operations / runs started)
    clock,        \* wall clock, in ticks since the run started
    github,       \* the repos that exist on GitHub
    repo_exists_cache,  \* _repo_exists_cache: repo -> "none" (no entry), "yes", "no"
    repo_ensured, \* _repo_ensured
    ens,          \* the running ensure_repo call: position, repo, outcome
    files,        \* the state directory: path -> text of the file (or NoFile)
    saver         \* the running save_state call: position, document, previous file

poolVars == <<writers, open_order, remote>>
runVars == <<persisted, pc, loc, buf, covered>>
diskVars == <<files, saver>>
ghVars == <<github, repo_exists_cache, repo_ensured, ens, files, saver>>
envVars == <<clock, github, repo_exists_cache, repo_ensured, ens, files, saver>>
vars == <<writers, open_order, remote, state, persisted, pc, loc, buf, last, lastGet,
          covered, nops, clock, github, repo_exists_cache, repo_ensured, ens,
          files, saver>>

\* ------------------------------------------------------- RepoRolloverTracker
\* state["rollover"] is modelled as a function on the (kind, scope) keys; 0
\* stands for "the dict has no such key".
TrackerKeys == (Kinds \X Scopes) \cup ({"Series"} \X (Scopes \cup {"Series"}))

TrackerIndex(roll, kind, scope) ==
    IF roll[<<kind, scope>>] = 0 THEN 1 ELSE roll[<<kind, scope>>]

TrackerBump(roll, kind, scope) ==
    [roll EXCEPT ![<<kind, scope>>] = TrackerIndex(roll, kind, scope) + 1]

TrackerRepo(roll, kind, scope) ==
    IF kind = "Series" \/ scope = "Series" THEN SERIES_REPO
    ELSE <<kind, scope, TrackerIndex(roll, kind, scope)>>

\* The methods as calls on the dict: the value returned and the dict left behind.
\* (mutant) an index that inserts the default, as dict.setdefault does
IndexCallSetdefault(roll, kind, scope) ==
    [ret |-> TrackerIndex(roll, kind, scope),
     roll |-> [roll EXCEPT ![<<kind, scope>>] = TrackerIndex(roll, kind, scope)]]

\* index: self.state["rollover"].get(key, 1)
IndexCall(roll, kind, scope) ==
    [ret |-> TrackerIndex(roll, kind, scope), roll |-> roll]

\* bump: the dict gets key -> index + 1
BumpCall(roll, kind, scope) ==
    [ret |-> TrackerIndex(roll, kind, scope) + 1, roll |-> TrackerBump(roll, kind, scope)]

\* repo: the series singleton, or the name built from self.index(kind, scope)
RepoCall(roll, kind, scope) ==
    IF kind = "Series" \/ scope = "Series" THEN [ret |-> SERIES_REPO, roll |-> roll]
    ELSE LET c == IndexCall(roll, kind, scope)
         IN [ret |-> <<kind, scope, c.ret>>, roll |-> c.roll]

\* ------------------------------------------------ git_commit_push_if_changed
\* plan: the outcomes of the push attempts of this call, in order; each is
\* "ok", "nff" (rejected, non-fast-forward), "net" (transient) or "other".
PushOutcomes == {"ok", "nff", "net", "other"}
PushPlans == {<<"ok", "ok", "ok">>, <<"nff", "net", "ok">>, <<"nff", "other", "net">>}

\* git add -- paths (only the given paths), or git add -A when paths is empty
Staged(w, paths) ==
    IF paths # <<>>
    THEN [p \in AllPaths |-> IF p \in SetOf(paths) THEN w.wt[p] ELSE w.head[p]]
    ELSE w.wt

\* (mutant) a push that is not retried
PushLoopOnce(plan, attempt) ==
    [ok |-> plan[attempt] = "ok", attempts |-> attempt,
     pulls |-> IF plan[attempt] = "nff" THEN 1 ELSE 0]

\* the retry loop: number of push attempts issued, 0 < n <= PUSH_ATTEMPTS
RECURSIVE PushLoop(_, _)
PushLoop(plan, attempt) ==
    IF attempt > PUSH_ATTEMPTS THEN [ok |-> FALSE, attempts |-> PUSH_ATTEMPTS, pulls |-> 0]
    ELSE IF plan[attempt] = "ok" THEN [ok |-> TRUE, attempts |-> attempt, pulls |-> 0]
    ELSE LET rest == PushLoop(plan, attempt + 1)
         IN [rest EXCEPT !.pulls = @ + (IF plan[attempt] = "nff" THEN 1 ELSE 0)]

\* Result: the writer (its head moves on commit), the backend tree, whether
\* the call returned True, and the exception it raised ("none" if it returned).
GitResult(w, rem, changed, raised, push) ==
    [w |-> w, remote |-> rem, changed |-> changed, raised |-> raised,
     attempts |-> push.attempts, pulls |-> push.pulls]

NoPush == [ok |-> FALSE, attempts |-> 0, pulls |-> 0]

\* git commit, then the push loop
CommitAndPush(w, rem, idx, push) ==
    IF push.ok
    THEN GitResult([w EXCEPT !.head = idx], idx, TRUE, "none", push)
    ELSE GitResult([w EXCEPT !.head = idx], rem, FALSE, "CalledProcessError", push)

GitStaged(w, rem, idx, plan) ==
    IF idx = w.head THEN GitResult(w, rem, FALSE, "none", NoPush)
    ELSE CommitAndPush(w, rem, idx, PushLoop(plan, 1))

GitCommitPushIfChanged(w, rem, paths, plan) ==
    IF ~w.dir THEN GitResult(w, rem, FALSE, "CalledProcessError", NoPush)
    ELSE GitStaged(w, rem, Staged(w, paths), plan)

\* ----------------------------------------------------------------- RepoWriter
\* repo: the repo name the writer was made for; opened: _opened; dir: the
\* local working copy exists on disk; pending: _pending_paths; wt, head: the
\* working copy (see the head of the module).
NewWriter(repo) ==
    [repo |-> repo, opened |-> FALSE, dir |-> FALSE, pending |-> <<>>, wt |-> EmptyTree,
     head |-> EmptyTree, files_written |-> 0, last_flush_files |-> 0]

\* ensure_local_repo: a fresh working copy of the backend branch
EnsureLocalRepo(w, rem) == [w EXCEPT !.dir = TRUE, !.wt = rem, !.head = rem]

WriterOpen(w, rem) ==
    IF w.opened THEN w ELSE [EnsureLocalRepo(w, rem) EXCEPT !.opened = TRUE]

\* the body of write_json after self.open(): mkdir -p of the parents, write
\* the file, count it, queue the path
WriteFile(w, relpath, content) ==
    [w EXCEPT !.wt[relpath] = content,
              !.files_written = @ + 1,
              !.pending = Append(@, relpath)]

WriteJson(w, rem, relpath, content) == WriteFile(WriterOpen(w, rem), relpath, content)

FlushGate(w, force) == force \/ Len(w.pending) >= COMMIT_EVERY_FILES

\* after a push: unlink the pushed data files of the working copy (not the
\* counts file); the deletions are not staged
UnlinkPushed(w, unique) ==
    [w EXCEPT !.wt = [p \in AllPaths |->
                        IF p \in SetOf(unique) /\ p # COUNTS THEN 0 ELSE w.wt[p]]]

\* Result of maybe_flush: the writer, the backend tree, the exception raised
\* ("none" if it returned), gate (the commit step was entered), changed (what
\* git_commit_push_if_changed returned), attempts and pulls of the push loop.
FlushResult(w, g, gate) ==
    [w |-> w, remote |-> g.remote, raised |-> g.raised, gate |-> gate,
     changed |-> g.changed, attempts |-> g.attempts, pulls |-> g.pulls]

\* the end of maybe_flush: last_flush_files and _pending_paths are reset
FlushReset(w) == [w EXCEPT !.last_flush_files = w.files_written, !.pending = <<>>]

\* maybe_flush after git_commit_push_if_changed has returned or raised g
FlushDone(unique, g) ==
    IF g.raised # "none" THEN FlushResult(g.w, g, TRUE)
    ELSE IF g.changed THEN FlushResult(FlushReset(UnlinkPushed(g.w, unique)), g, TRUE)
    ELSE FlushResult(FlushReset(g.w), g, TRUE)

FlushPaths(w, rem, unique, plan) ==
    FlushDone(unique, GitCommitPushIfChanged(w, rem, unique, plan))

\* "Always include counts file if present"
WithCounts(w) ==
    IF w.wt[COUNTS] # 0 THEN [w EXCEPT !.pending = Append(@, COUNTS)] ELSE w

FlushCommit(w, rem, plan) == FlushPaths(w, rem, UniquePaths(w.pending), plan)

MaybeFlush(w, rem, force, plan) ==
    IF ~w.opened \/ ~FlushGate(w, force)
    THEN FlushResult(w, GitResult(w, rem, FALSE, "none", NoPush), FALSE)
    ELSE FlushCommit(WithCounts(w), rem, plan)

\* shutil.rmtree(local_path)
Rmtree(w) == [w EXCEPT !.dir = FALSE, !.wt = EmptyTree, !.head = EmptyTree]

CloseFinally(m) == [m EXCEPT !.w = Rmtree(m.w)]

\* (mutant) close that removes the working copy without flushing
WriterCloseNoFlush(w, rem, plan) ==
    CloseFinally(FlushResult(w, GitResult(w, rem, FALSE, "none", NoPush), FALSE))

\* close: maybe_flush(True), and in any case remove the working copy
WriterClose(w, rem, plan) == CloseFinally(MaybeFlush(w, rem, TRUE, plan))

\* -------------------------------------------------------------- WriterManager
\* The operations below work on a record P of the manager and its
\* surroundings: writers, open_order, remote, raised (the exception that left
\* the operation, "none" if it returned) and log (the events, in order).
Pool(ws, oo, rem) ==
    [writers |-> ws, open_order |-> oo, remote |-> rem, raised |-> "none", log |-> <<>>]

EmptyDict == [x \in {} |-> 0]
DictPop(d, k) == [x \in (DOMAIN d) \ {k} |-> d[x]]
DictSet(d, k, v) == [x \in (DOMAIN d) \cup {k} |-> IF x = k THEN v ELSE d[x]]

FlushInDone(P, r, w, force, m) ==
    [P EXCEPT !.writers[r] = m.w, !.remote[r] = m.remote, !.raised = m.raised,
              !.log = Append(@, FlushEv(r, w, force, m))]

\* w.maybe_flush(force) on the writer of repo r, which stays in the dict
FlushIn(P, r, force, plan) ==
    FlushInDone(P, r, P.writers[r], force,
                MaybeFlush(P.writers[r], P.remote[r], force, plan))

CloseInDone(P, r, w, c) ==
    [P EXCEPT !.writers = IF r \in DOMAIN @ THEN [@ EXCEPT ![r] = c.w] ELSE @,
              !.remote[r] = c.remote, !.raised = c.raised,
              !.log = @ \o <<FlushEv(r, w, TRUE, c),
                             Ev("discard", r, c.raised = "none", Len(c.w.pending))>>]

\* w.close() on the writer object w of repo r (in the dict or already popped)
CloseIn(P, r, w, plan) == CloseInDone(P, r, w, WriterClose(w, P.remote[r], plan))

\* evict_repo = open_order.pop(0); w = writers.pop(evict_repo, None); w.close()
EvictOne(P, plans) ==
    IF Head(P.open_order) \notin DOMAIN P.writers
    THEN [P EXCEPT !.open_order = Tail(@)]
    ELSE CloseIn([P EXCEPT !.open_order = Tail(@),
                           !.writers = DictPop(@, Head(P.open_order)),
                           !.log = Append(@, Ev("evict", Head(P.open_order), TRUE, 0))],
                 Head(P.open_order), P.writers[Head(P.open_order)],
                 plans[Head(P.open_order)])

\* (mutant) an eviction loop that starts one writer too late
RECURSIVE EvictLoopOffByOne(_, _)
EvictLoopOffByOne(P, plans) ==
    IF P.raised # "none" \/ Len(P.open_order) <= MAX_OPEN_REPOS THEN P
    ELSE EvictLoopOffByOne(EvictOne(P, plans), plans)

\* the eviction loop of get: while len(open_order) >= max_open_repos
RECURSIVE EvictLoop(_, _)
EvictLoop(P, plans) ==
    IF P.raised # "none" \/ Len(P.open_order) < MAX_OPEN_REPOS THEN P
    ELSE EvictLoop(EvictOne(P, plans), plans)

\* (mutant) a get that does not touch the order: first in, first out
GetHitNoTouch(P, repo) == P

\* (mutant) a touch that appends the name without removing it first
GetHitAppend(P, repo) == [P EXCEPT !.open_order = Append(@, repo)]

\* get on a repo that is open: touch it for the LRU order
GetHit(P, repo) ==
    [P EXCEPT !.open_order =
        Append(IF repo \in SetOf(@) THEN RemoveFirst(@, repo) ELSE @, repo)]

\* (mutant) a get that hands out a writer that is already open under another name
GetOpenShared(P, repo) ==
    IF P.raised # "none" THEN P
    ELSE [P EXCEPT !.writers = DictSet(@, repo,
                                  IF P.open_order # <<>> THEN P.writers[Head(P.open_order)]
                                  ELSE WriterOpen(NewWriter(repo), P.remote[repo])),
                   !.open_order = Append(@, repo),
                   !.log = Append(@, Ev("open", repo, TRUE, 0))]

\* get on a repo that is not open, after the eviction loop
GetOpen(P, repo) ==
    IF P.raised # "none" THEN P
    ELSE [P EXCEPT !.writers = DictSet(@, repo, WriterOpen(NewWriter(repo), P.remote[repo])),
                   !.open_order = Append(@, repo),
                   !.log = Append(@, Ev("open", repo, TRUE, 0))]

Get(P, repo, plans) ==
    IF repo \in DOMAIN P.writers THEN GetHit(P, repo)
    ELSE GetOpen(EvictLoop(P, plans), repo)

\* flush_all: maybe_flush(force=True) on every open writer, in open_order; an
\* exception of a flush leaves the loop (maybe_flush never raises
\* RolloverRequested, so that handler never runs)
RECURSIVE FlushAllLoop(_, _, _)
FlushAllLoop(P, order, plans) ==
    IF order = <<>> \/ P.raised # "none" THEN P
    ELSE IF Head(order) \notin DOMAIN P.writers THEN FlushAllLoop(P, Tail(order), plans)
    ELSE FlushAllLoop(FlushIn(P, Head(order), TRUE, plans[Head(order)]), Tail(order), plans)

FlushAll(P, plans) == FlushAllLoop(P, P.open_order, plans)

\* close_all (the function body): close every open writer, then clear both
RECURSIVE CloseAllLoop(_, _, _)
CloseAllLoop(P, order, plans) ==
    IF order = <<>> \/ P.raised # "none" THEN P
    ELSE IF Head(order) \notin DOMAIN P.writers THEN CloseAllLoop(P, Tail(order), plans)
    ELSE CloseAllLoop(CloseIn(P, Head(order), P.writers[Head(order)], plans[Head(order)]),
                      Tail(order), plans)

CloseAllClear(P) ==
    IF P.raised # "none" THEN P
    ELSE [P EXCEPT !.writers = EmptyDict, !.open_order = <<>>]

CloseAll(P, plans) == CloseAllClear(CloseAllLoop(P, P.open_order, plans))

\* ------------------------------------------------------------- main.yield_item
\* A record's relative path rel carries its kind (first path part), its scope
\* (lifecycle partition and time bucket) and the file name.
Rels == [kind : Kinds \cup {"Series"}, scope : Scopes, path : Paths]

\* target_repo_for_relpath: route by the kind and scope of the path
TargetRepoForRelpath(rel, roll) == TrackerRepo(roll, rel.kind, rel.scope)

\* w.kind, w.scope: the kind and scope the writer's repo was opened for
WriterKind(repo) == repo[1]
WriterScope(repo) == IF repo = SERIES_REPO THEN "Series" ELSE repo[2]

\* the rollover signal: the writer has reached the item-count threshold
RolloverTrigger(w) == w.files_written >= MAX_FILES_PER_REPO

\* Y is [P, roll, repo, done]: the pool record, state["rollover"], the local
\* variable repo and whether the while loop was left.

\* try: w.write_json(str(rel), obj); w.maybe_flush(False); break
WriteAndFlush(Y, rel, content, plans) ==
    [Y EXCEPT !.done = TRUE,
              !.P = FlushIn([Y.P EXCEPT
                               !.writers[Y.repo] = WriteJson(@, Y.P.remote[Y.repo], rel.path, content),
                               !.log = Append(@, Ev("write", Y.repo, TRUE, rel.path))],
                            Y.repo, FALSE, plans[Y.repo])]

\* (mutant) a handler that advances the index of every kind
AfterCloseAnyKind(Y, kind, scope) ==
    IF Y.P.raised # "none" THEN [Y EXCEPT !.done = TRUE]
    ELSE [Y EXCEPT !.P.writers = DictPop(@, Y.repo),
                   !.P.open_order = RemoveFirst(@, Y.repo),
                   !.roll = TrackerBump(@, kind, scope),
                   !.repo = TrackerRepo(TrackerBump(Y.roll, kind, scope), kind, scope)]

\* the handler after w.close(): forget the writer, bump the index, re-route
AfterClose(Y, kind, scope) ==
    IF Y.P.raised # "none" THEN [Y EXCEPT !.done = TRUE]
    ELSE IF kind # "Series"
    THEN [Y EXCEPT !.P.writers = DictPop(@, Y.repo),
                   !.P.open_order = RemoveFirst(@, Y.repo),
                   !.P.log = Append(@, Ev("bump", Y.repo, TRUE,
                                          TrackerIndex(Y.roll, kind, scope) + 1)),
                   !.roll = TrackerBump(@, kind, scope),
                   !.repo = TrackerRepo(TrackerBump(Y.roll, kind, scope), kind, scope)]
    ELSE [Y EXCEPT !.P.writers = DictPop(@, Y.repo),
                   !.P.open_order = RemoveFirst(@, Y.repo),
                   !.P.raised = "RolloverRequested",
                   !.done = TRUE]

\* (mutant) a handler that bumps the index without closing the writer
RolloverHandlerNoClose(Y, plans) ==
    AfterClose(Y, WriterKind(Y.repo), WriterScope(Y.repo))

\* except RolloverRequested:
RolloverHandler(Y, plans) ==
    AfterClose([Y EXCEPT !.P = CloseIn(@, Y.repo, Y.P.writers[Y.repo], plans[Y.repo])],
               WriterKind(Y.repo), WriterScope(Y.repo))

\* one turn of the while loop, after w = wm.get(repo).  trig says whether the
\* rollover signal exists (nothing in RepoWriter raises RolloverRequested).
YieldTurn(Y, rel, content, plans, trig) ==
    IF Y.P.raised # "none" THEN [Y EXCEPT !.done = TRUE]
    ELSE IF trig /\ RolloverTrigger(Y.P.writers[Y.repo]) THEN RolloverHandler(Y, plans)
    ELSE WriteAndFlush(Y, rel, content, plans)

RECURSIVE YieldLoop(_, _, _, _, _)
YieldLoop(Y, rel, content, plans, trig) ==
    IF Y.done THEN Y
    ELSE YieldLoop(YieldTurn([Y EXCEPT !.P = Get(@, Y.repo, plans)],
                             rel, content, plans, trig),
                   rel, content, plans, trig)

YieldItem(P, roll, rel, content, plans, trig) ==
    YieldLoop([P |-> P, roll |-> roll, repo |-> TargetRepoForRelpath(rel, roll),
               done |-> FALSE],
              rel, content, plans, trig)

\* ------------------------------------------------------------------ crawl state
Cats == {"events", "markets"}
Cursors == {0, 1}               \* 0: None (or an empty cursor string)

\* load_state's defaults; "rollover" as RepoRolloverTracker.__init__ leaves it
DefaultState ==
    [cursor |-> [c \in Cats |-> 0], page |-> [c \in Cats |-> 0],
     total |-> [c \in Cats |-> 0], first_full_done |-> FALSE,
     rollover |-> [k \in TrackerKeys |-> 0]]

\* (mutant) a load that ignores the file
LoadStateFresh(file) == DefaultState

LoadState(file) == IF file.exists THEN file.st ELSE DefaultState

\* save_state -> atomic_write_json: the file holds a copy of the dict
SaveState(st) == [exists |-> TRUE, st |-> st]

\* ------------------------------------------------------ push plans of one step
OkPlan == <<"ok", "ok", "ok">>
\* the pushes of the repos in S follow any plan, one repo at a time; the others succeed
PlanChoices(S) ==
    {[r \in Repos |-> OkPlan]} \cup
    {[r \in Repos |-> IF r = t THEN pl ELSE OkPlan] : t \in S, pl \in PushPlans \ {OkPlan}}

NoBuf == [todo |-> <<>>, items |-> <<>>, next_cursor |-> 0]
NoEnsure == [pc |-> "idle", repo |-> SERIES_REPO, result |-> "none", post |-> 0,
             existed |-> FALSE, posts |-> 0]
NoLoc == [cat |-> "none", cursor |-> 0, page |-> 0, total |-> 0]
Last(op, repo, P) == [op |-> op, repo |-> repo, raised |-> P.raised, log |-> P.log]

\* the backend before the first run: repos without data files, all with or
\* all without a KALSHI_COUNTS.json
InitRemote(c) == [r \in Repos |-> [p \in AllPaths |-> IF p = COUNTS THEN c ELSE 0]]

\* ------------------------------------------------------- atomic_write_json
\* A document is known by its number; json.dump writes its text to the open
\* file chunk by chunk, and a text parses only when every chunk is there.
STATE_FILE == "kalshi_state.json"
NoFile == <<"absent">>
Docs == 1..MaxDocs
Serialize(doc) == [i \in 1..MaxChunks |-> <<doc, i>>]
Complete(text) == \E doc \in Docs : text = Serialize(doc)

\* (mutant) the document is written in place
WithSuffixSame(path) == path

\* path.with_suffix(path.suffix + ".tmp")
WithSuffix(path) == "kalshi_state.json.tmp"

NoFiles == [p \in {STATE_FILE, WithSuffix(STATE_FILE)} |-> NoFile]
NoSave == [pc |-> "idle", obj |-> 0, prev |-> NoFile]

InitBase(counts) ==
    /\ writers = EmptyDict
    /\ open_order = <<>>
    /\ \E c \in counts : remote = InitRemote(c)
    /\ persisted = [exists |-> FALSE, st |-> DefaultState]
    /\ state = DefaultState
    /\ pc = "series_fetch"
    /\ loc = NoLoc
    /\ buf = NoBuf
    /\ last = [op |-> "init", repo |-> SERIES_REPO, raised |-> "none", log |-> <<>>]
    /\ lastGet = [r \in Repos |-> 0]
    /\ covered = [c \in Cats |-> {}]
    /\ nops = 0
    /\ clock = 0
    /\ repo_exists_cache = [r \in Repos |-> "none"]
    /\ repo_ensured = {}
    /\ ens = NoEnsure
    /\ files = NoFiles
    /\ saver = NoSave

\* every repo of the model exists on GitHub
InitWith(counts) == InitBase(counts) /\ github = Repos

Init == InitWith({0})
InitPool == InitWith({0, 1})

\* --------------------------------------------- the pool driven operation by operation
SetPool(P) ==
    /\ writers' = P.writers
    /\ open_order' = P.open_order
    /\ remote' = P.remote

ThePool == Pool(writers, open_order, remote)

PoolStep == nops < MaxOps /\ nops' = nops + 1 /\ UNCHANGED runVars /\ UNCHANGED envVars

PoolGet(repo) ==
    /\ PoolStep
    /\ \E plans \in PlanChoices(IF repo \in DOMAIN writers THEN {} ELSE DOMAIN writers) :
          LET P == Get(ThePool, repo, plans)
          IN SetPool(P) /\ last' = Last("get", repo, P)
    /\ lastGet' = [lastGet EXCEPT ![repo] = nops + 1]
    /\ UNCHANGED state

PoolWriteJson(repo, path, content) ==
    /\ PoolStep
    /\ repo \in DOMAIN writers
    /\ Len(writers[repo].pending) < MaxPending
    /\ writers' = [writers EXCEPT ![repo] = WriteJson(@, remote[repo], path, content)]
    /\ last' = [op |-> "write_json", repo |-> repo, raised |-> "none",
                log |-> <<Ev("write", repo, TRUE, path)>>]
    /\ UNCHANGED <<open_order, remote, state, lastGet>>

PoolMaybeFlush(repo, force) ==
    /\ PoolStep
    /\ repo \in DOMAIN writers
    /\ Len(writers[repo].pending) < MaxPending
    /\ \E plan \in PushPlans :
          LET P == FlushIn(ThePool, repo, force, plan)
          IN SetPool(P) /\ last' = Last("maybe_flush", repo, P)
    /\ UNCHANGED <<state, lastGet>>

PoolFlushAll ==
    /\ PoolStep
    /\ \E plans \in PlanChoices(DOMAIN writers) :
          LET P == FlushAll(ThePool, plans)
          IN SetPool(P) /\ last' = Last("flush_all", SERIES_REPO, P)
    /\ UNCHANGED <<state, lastGet>>

PoolCloseAll ==
    /\ PoolStep
    /\ \E plans \in PlanChoices(DOMAIN writers) :
          LET P == CloseAll(ThePool, plans)
          IN SetPool(P) /\ last' = Last("close_all", SERIES_REPO, P)
    /\ UNCHANGED <<state, lastGet>>

\* yield_item cannot be taken past the last repo index of the model
CanYield(rel, trig) ==
    LET repo == TargetRepoForRelpath(rel, state.rollover)
    IN ~(/\ trig
         /\ repo \in DOMAIN writers
         /\ RolloverTrigger(writers[repo])
         /\ rel.kind # "Series"
         /\ TrackerIndex(state.rollover, rel.kind, rel.scope) >= MaxIndex)

PoolYieldItem(rel, content) ==
    /\ PoolStep
    /\ CanYield(rel, TRUE)
    /\ LET repo == TargetRepoForRelpath(rel, state.rollover)
       IN /\ repo \in DOMAIN writers => Len(writers[repo].pending) < MaxPending
          /\ \E plans \in PlanChoices(DOMAIN writers \cup {repo}) :
                LET Y == YieldItem(ThePool, state.rollover, rel, content, plans, TRUE)
                IN /\ SetPool(Y.P)
                   /\ lastGet' = [r \in Repos |->
                                    IF r \in {repo, Y.repo} THEN nops + 1 ELSE lastGet[r]]
                   /\ state' = [state EXCEPT !.rollover = Y.roll]
                   /\ last' = Last("yield_item", repo, Y.P)

NextPool ==
    \/ \E repo \in Repos : PoolGet(repo)
    \/ \E repo \in Repos, path \in Paths, content \in Contents :
          PoolWriteJson(repo, path, content)
    \/ \E repo \in Repos, force \in BOOLEAN : PoolMaybeFlush(repo, force)
    \/ PoolFlushAll
    \/ PoolCloseAll
    \/ \E rel \in Rels, content \in Contents : PoolYieldItem(rel, content)

SpecPool == InitPool /\ [][NextPool]_vars

\* ------------------------------------------------------------------------ main
\* One step per I/O boundary of main(): a page fetch, one yield_item, the save
\* after a page, the end of a crawl function, flush_all, the final save, the
\* finally clause.  The process can be killed between any two of them.
KindOf(cat) == IF cat = "events" THEN "Events" ELSE IF cat = "markets" THEN "Markets" ELSE "Series"

\* the pages a fetch of a category can return: up to MaxItems records, each
\* a (relative path, content); the i-th record of a page has file name i (modulo the names)
PageItem(cat, i) ==
    [rel |-> [kind |-> KindOf(cat), scope |-> "Current",
              path |-> ((i - 1) % Cardinality(Paths)) + 1],
     content |-> 1]
Pages(cat) ==
    {[i \in 1..n |-> PageItem(cat, i)] : n \in 0..(IF cat = "series" THEN 1 ELSE MaxItems)}

RunLast(op, P) == [op |-> op, repo |-> SERIES_REPO, raised |-> P.raised, log |-> P.log]
Raised(op, exc) == [op |-> op, repo |-> SERIES_REPO, raised |-> exc, log |-> <<>>]

\* a page request: kalshi_get_json returned (exc = "none") or raised
FetchLast(cursor, exc) ==
    [op |-> "fetch", repo |-> SERIES_REPO, raised |-> exc,
     log |-> <<[Ev("fetch", SERIES_REPO, exc = "none", cursor) EXCEPT !.at = clock]>>]

\* (mutant) main calls the markets crawl where it should call the given one
CrawlBeginMarkets(cat, st) ==
    [cat |-> "markets", cursor |-> st.cursor["markets"], page |-> st.page["markets"],
     total |-> st.total["markets"]]

\* (mutant) a crawl that counts its pages and records from zero
CrawlBeginFromZero(cat, st) ==
    [cat |-> cat, cursor |-> st.cursor[cat], page |-> 0, total |-> 0]

\* the locals a crawl function reads from the state dict when it starts
CrawlBegin(cat, st) ==
    [cat |-> cat, cursor |-> st.cursor[cat], page |-> st.page[cat], total |-> st.total[cat]]

\* crawl_series_all: data = kalshi_get_json("/series")
SeriesFetch ==
    /\ pc = "series_fetch"
    /\ \/ /\ pc' = "finally"
          /\ last' = FetchLast(0, "RuntimeError")
          /\ UNCHANGED buf
       \/ \E items \in Pages("series") :
             /\ buf' = [todo |-> items, items |-> items, next_cursor |-> 0]
             /\ pc' = "series_items"
             /\ last' = FetchLast(0, "none")
    /\ UNCHANGED <<poolVars, state, persisted, loc, lastGet, covered, nops>>
    /\ UNCHANGED envVars

\* for o in items: yield_item(relpath(o), o)
Yield(trig) ==
    /\ pc \in {"series_items", "items"}
    /\ buf.todo # <<>>
    /\ CanYield(Head(buf.todo).rel, trig)
    /\ \E plans \in PlanChoices(DOMAIN writers
                                \cup {TargetRepoForRelpath(Head(buf.todo).rel, state.rollover)}) :
          LET Y == YieldItem(ThePool, state.rollover, Head(buf.todo).rel,
                             Head(buf.todo).content, plans, trig)
          IN /\ SetPool(Y.P)
             /\ state' = [state EXCEPT !.rollover = Y.roll]
             /\ last' = RunLast("yield_item", Y.P)
             /\ IF Y.P.raised # "none"
                THEN pc' = "finally" /\ UNCHANGED buf
                ELSE pc' = pc /\ buf' = [buf EXCEPT !.todo = Tail(@)]
    /\ UNCHANGED <<persisted, loc, lastGet, covered, nops>>
    /\ UNCHANGED envVars

\* crawl_series_all returns; crawl_events_full reads its locals from the state
SeriesDone ==
    /\ pc = "series_items"
    /\ buf.todo = <<>>
    /\ loc' = CrawlBegin("events", state)
    /\ pc' = "fetch"
    /\ buf' = NoBuf
    /\ last' = Raised("series_done", "none")
    /\ UNCHANGED <<poolVars, state, persisted, lastGet, covered, nops>>
    /\ UNCHANGED envVars

\* (mutant) a page request whose failure clears the cursor of the category
FetchClearsCursor ==
    /\ pc = "fetch"
    /\ \/ /\ pc' = "finally"
          /\ last' = FetchLast(loc.cursor, "RuntimeError")
          /\ state' = [state EXCEPT !.cursor[loc.cat] = 0]
          /\ persisted' = SaveState(state')
          /\ UNCHANGED buf
       \/ \E items \in Pages(loc.cat), next \in Cursors :
             /\ loc.page >= MaxPages => next = 0
             /\ buf' = [todo |-> items, items |-> items, next_cursor |-> next]
             /\ pc' = IF items = <<>> /\ next = 0 THEN "end" ELSE "items"
             /\ last' = FetchLast(loc.cursor, "none")
             /\ UNCHANGED <<state, persisted>>
    /\ UNCHANGED <<poolVars, loc, lastGet, covered, nops>>
    /\ UNCHANGED envVars

\* data = kalshi_get_json(...); items, next_cursor; the break on an empty answer
Fetch ==
    /\ pc = "fetch"
    /\ \/ /\ pc' = "finally"
          /\ last' = FetchLast(loc.cursor, "RuntimeError")
          /\ UNCHANGED buf
       \/ \E items \in Pages(loc.cat), next \in Cursors :
             /\ loc.page >= MaxPages => next = 0
             /\ buf' = [todo |-> items, items |-> items, next_cursor |-> next]
             /\ pc' = IF items = <<>> /\ next = 0 THEN "end" ELSE "items"
             /\ last' = FetchLast(loc.cursor, "none")
    /\ UNCHANGED <<poolVars, state, persisted, loc, lastGet, covered, nops>>
    /\ UNCHANGED envVars

\* total += len(items); page += 1; cursor = next_cursor; state.update(...);
\* save_state(state); if not cursor: break
SavePage ==
    /\ pc = "items"
    /\ buf.todo = <<>>
    /\ LET l == [loc EXCEPT !.total = @ + Len(buf.items), !.page = @ + 1,
                            !.cursor = buf.next_cursor]
           st == [state EXCEPT !.cursor[loc.cat] = l.cursor, !.page[loc.cat] = l.page,
                               !.total[loc.cat] = l.total]
       IN /\ loc' = l
          /\ state' = st
          /\ persisted' = SaveState(st)
          /\ covered' = [covered EXCEPT ![loc.cat] =
                            IF l.cursor = 0 THEN {}
                            ELSE @ \cup {buf.items[i].rel : i \in 1..Len(buf.items)}]
          /\ pc' = IF l.cursor = 0 THEN "end" ELSE "fetch"
    /\ buf' = NoBuf
    /\ last' = [Raised("save_page", "none") EXCEPT
                   !.log = <<Ev("page", SERIES_REPO, TRUE, Len(buf.items))>>]
    /\ UNCHANGED <<poolVars, lastGet, nops>>
    /\ UNCHANGED envVars

\* after the loop: state["<cat>_cursor"] = None; save_state(state); return
CrawlEnd ==
    /\ pc = "end"
    /\ LET st == [state EXCEPT !.cursor[loc.cat] = 0]
       IN /\ state' = st
          /\ persisted' = SaveState(st)
          /\ covered' = [covered EXCEPT ![loc.cat] = {}]
          /\ IF loc.cat = "events"
             THEN pc' = "fetch" /\ loc' = CrawlBegin("markets", st)
             ELSE pc' = "flush_all" /\ loc' = NoLoc
    /\ buf' = NoBuf
    /\ last' = Raised("crawl_end", "none")
    /\ UNCHANGED <<poolVars, lastGet, nops>>
    /\ UNCHANGED envVars

\* (mutant) a flush_all whose exception is swallowed
MainFlushAllSwallow ==
    /\ pc = "flush_all"
    /\ \E plans \in PlanChoices(DOMAIN writers) :
          LET P == FlushAll(ThePool, plans)
          IN /\ SetPool(P)
             /\ last' = RunLast("flush_all", P)
             /\ pc' = "final_save"
    /\ UNCHANGED <<state, persisted, loc, buf, lastGet, covered, nops>>
    /\ UNCHANGED envVars

\* wm.flush_all()
MainFlushAll ==
    /\ pc = "flush_all"
    /\ \E plans \in PlanChoices(DOMAIN writers) :
          LET P == FlushAll(ThePool, plans)
          IN /\ SetPool(P)
             /\ last' = RunLast("flush_all", P)
             /\ pc' = IF P.raised # "none" THEN "finally" ELSE "final_save"
    /\ UNCHANGED <<state, persisted, loc, buf, lastGet, covered, nops>>
    /\ UNCHANGED envVars

\* state["first_full_done"] = True; ...; save_state(state)
FinalSave ==
    /\ pc = "final_save"
    /\ state' = [state EXCEPT !.first_full_done = TRUE]
    /\ persisted' = SaveState(state')
    /\ pc' = "finally"
    /\ last' = Raised("final_save", "none")
    /\ UNCHANGED <<poolVars, loc, buf, lastGet, covered, nops>>
    /\ UNCHANGED envVars

\* finally: wm.close_all().  close_all is defined at module level, not in the
\* class: the attribute lookup raises AttributeError and no writer is closed.
MainFinally ==
    /\ pc = "finally"
    /\ pc' = "exited"
    /\ last' = Raised("finally", "AttributeError")
    /\ UNCHANGED <<poolVars, state, persisted, loc, buf, lastGet, covered, nops>>
    /\ UNCHANGED envVars

\* the process is killed, or has exited, and the next run starts: load_state,
\* a new tracker and a new manager
NewRun ==
    /\ nops < MaxRuns
    /\ nops' = nops + 1
    /\ state' = LoadState(persisted)
    /\ writers' = EmptyDict
    /\ open_order' = <<>>
    /\ pc' = "series_fetch"
    /\ loc' = NoLoc
    /\ buf' = NoBuf
    /\ last' = Raised("new_run", "none")
    /\ UNCHANGED <<remote, persisted, lastGet, covered>>
    /\ clock' = 0
    /\ UNCHANGED ghVars

MainSteps ==
    \/ SeriesFetch
    \/ SeriesDone
    \/ Fetch
    \/ SavePage
    \/ CrawlEnd
    \/ MainFlushAll
    \/ FinalSave
    \/ MainFinally
    \/ NewRun

\* main() as the source has it: nothing raises RolloverRequested
Next == MainSteps \/ Yield(FALSE)

Spec == Init /\ [][Next]_vars

\* main() with the rollover signal raised at the item-count threshold
NextRollover == MainSteps \/ Yield(TRUE)

SpecRollover == Init /\ [][NextRollover]_vars

\* ----------------------------------------- one writer, one path, two contents
\* write_json and maybe_flush called on the writer of one repo, always for
\* the same relative path, with either of two contents
WRITE_REPO == <<"Events", "Current", 1>>
WRITE_PATH == 1
WriteContents == {1, 2}

WriteStep == nops < MaxWrites /\ nops' = nops + 1 /\ UNCHANGED runVars /\ UNCHANGED envVars

OneGet ==
    /\ WriteStep
    /\ LET P == Get(ThePool, WRITE_REPO, [r \in Repos |-> OkPlan])
       IN SetPool(P) /\ last' = Last("get", WRITE_REPO, P)
    /\ lastGet' = [lastGet EXCEPT ![WRITE_REPO] = nops + 1]
    /\ UNCHANGED state

OneWrite(content) ==
    /\ WriteStep
    /\ WRITE_REPO \in DOMAIN writers
    /\ Len(writers[WRITE_REPO].pending) < MaxPending
    /\ writers' = [writers EXCEPT
                     ![WRITE_REPO] = WriteJson(@, remote[WRITE_REPO], WRITE_PATH, content)]
    /\ last' = [op |-> "write_json", repo |-> WRITE_REPO, raised |-> "none",
                log |-> <<Ev("write", WRITE_REPO, TRUE, WRITE_PATH)>>]
    /\ UNCHANGED <<open_order, remote, state, lastGet>>

OneFlush(force) ==
    /\ WriteStep
    /\ WRITE_REPO \in DOMAIN writers
    /\ \E plan \in PushPlans :
          LET P == FlushIn(ThePool, WRITE_REPO, force, plan)
          IN SetPool(P) /\ last' = Last("maybe_flush", WRITE_REPO, P)
    /\ UNCHANGED <<state, lastGet>>

NextWrite ==
    \/ OneGet
    \/ \E content \in WriteContents : OneWrite(content)
    \/ \E force \in BOOLEAN : OneFlush(force)

SpecWrite == InitPool /\ [][NextWrite]_vars

\* ------------------------------------------- one writer, any push outcomes
\* every sequence of outcomes the push attempts of one call can meet
AllPushPlans == [1..PUSH_ATTEMPTS -> PushOutcomes]

\* maybe_flush(True) on the writer, its push attempts meeting the outcomes of plan
PushFlush(plan) ==
    /\ WriteStep
    /\ WRITE_REPO \in DOMAIN writers
    /\ LET P == FlushIn(ThePool, WRITE_REPO, TRUE, plan)
       IN /\ SetPool(P)
          /\ last' = [op |-> "push_flush", repo |-> WRITE_REPO, raised |-> P.raised,
                      log |-> P.log, plan |-> plan]
    /\ UNCHANGED <<state, lastGet>>

NextPush ==
    \/ OneGet
    \/ \E content \in WriteContents : OneWrite(content)
    \/ \E plan \in AllPushPlans : PushFlush(plan)

SpecPush == InitPool /\ [][NextPush]_vars

\* ------------------------------------------------------------- ensure_repo
\* The repos ensure_repo is called for, and the HTTP statuses of the model.
EnsureTargets == {SERIES_REPO} \cup {<<k, "Current", 1>> : k \in Kinds}

\* GET /repos/{owner}/{repo}: 200 or 404 by what exists, or a server error
GetStatuses(repo) == {IF repo \in github THEN 200 ELSE 404, 500}
\* POST /user/repos: 422 when the name exists; otherwise created (201), or
\* refused (422 for another validation reason); or a server error
PostStatuses(repo) == IF repo \in github THEN {422, 500} ELSE {201, 422, 500}

\* gh_repo_exists: the cached answer if there is one, else the GET's
\* (result "yes" / "no" / "RuntimeError")
GhRepoExists(cache, repo, status) ==
    IF cache[repo] # "none" THEN [cache |-> cache, result |-> cache[repo]]
    ELSE IF status = 200 THEN [cache |-> [cache EXCEPT ![repo] = "yes"], result |-> "yes"]
    ELSE IF status = 404 THEN [cache |-> [cache EXCEPT ![repo] = "no"], result |-> "no"]
    ELSE [cache |-> cache, result |-> "RuntimeError"]

\* ensure_repo / gh_create_repo return, or raise
EnsureReturn(repo, result, post, existed) ==
    /\ ens' = [pc |-> "idle", repo |-> repo, result |-> result, post |-> post,
               existed |-> existed, posts |-> ens.posts]
    /\ repo_ensured' = IF result = "ok" THEN repo_ensured \cup {repo} ELSE repo_ensured

EnvStep == UNCHANGED <<poolVars, state, persisted, pc, loc, buf, last, lastGet, covered,
                       nops, clock, files, saver>>

\* ensure_repo up to its first request: the _repo_ensured test, gh_repo_exists
EnsureRepo(repo) ==
    /\ ens.pc = "idle"
    /\ EnvStep
    /\ UNCHANGED github
    /\ IF repo \in repo_ensured
       THEN /\ ens' = [NoEnsure EXCEPT !.repo = repo, !.result = "ok"]
            /\ UNCHANGED <<repo_exists_cache, repo_ensured>>
       ELSE \E status \in GetStatuses(repo) :
               LET x == GhRepoExists(repo_exists_cache, repo, status)
               IN /\ repo_exists_cache' = x.cache
                  /\ IF x.result = "no"
                     THEN /\ ens' = [NoEnsure EXCEPT !.pc = "create", !.repo = repo]
                          /\ UNCHANGED repo_ensured
                     ELSE /\ ens' = [NoEnsure EXCEPT !.repo = repo,
                                        !.result = IF x.result = "yes" THEN "ok" ELSE x.result]
                          /\ repo_ensured' = IF x.result = "yes"
                                             THEN repo_ensured \cup {repo} ELSE repo_ensured

\* the re-check of gh_create_repo: gh_repo_exists, with any exception of it swallowed
Recheck(cache, repo) ==
    GhRepoExists(cache, repo, IF repo \in github' THEN 200 ELSE 404)

\* gh_create_repo: the first POST and, on 422, the four re-checks
GhCreatePost ==
    /\ ens.pc = "create"
    /\ EnvStep
    /\ \E status \in PostStatuses(ens.repo) :
          /\ github' = IF status = 201 THEN github \cup {ens.repo} ELSE github
          /\ IF status = 201
             THEN EnsureReturn(ens.repo, "ok", status, FALSE) /\ UNCHANGED repo_exists_cache
             ELSE IF status = 422
             THEN LET x == Recheck(repo_exists_cache, ens.repo)
                  IN /\ repo_exists_cache' = x.cache
                     /\ IF x.result = "yes"
                        THEN EnsureReturn(ens.repo, "ok", status, ens.repo \in github)
                        ELSE /\ ens' = [ens EXCEPT !.pc = "retry", !.post = status,
                                                   !.existed = ens.repo \in github,
                                                   !.posts = 0]
                             /\ UNCHANGED repo_ensured
             ELSE EnsureReturn(ens.repo, "RuntimeError", status, FALSE)
                  /\ UNCHANGED repo_exists_cache

\* gh_create_repo: one turn of the retry loop (for delay_s in (2, 4)): POST
\* again, re-check; after the second turn the function raises
GhCreateRetry ==
    /\ ens.pc = "retry"
    /\ EnvStep
    /\ \E status \in PostStatuses(ens.repo) :
          /\ github' = IF status = 201 THEN github \cup {ens.repo} ELSE github
          /\ IF status = 201
             THEN EnsureReturn(ens.repo, "ok", ens.post, ens.existed)
                  /\ UNCHANGED repo_exists_cache
             ELSE LET x == Recheck(repo_exists_cache, ens.repo)
                      ex == ens.existed \/ (status = 422 /\ ens.repo \in github)
                  IN /\ repo_exists_cache' = x.cache
                     /\ IF x.result = "yes"
                        THEN EnsureReturn(ens.repo, "ok", ens.post, ex)
                        ELSE IF ens.posts + 1 >= CREATE_RETRIES
                        THEN EnsureReturn(ens.repo, "RuntimeError", ens.post, ex)
                        ELSE /\ ens' = [ens EXCEPT !.posts = @ + 1, !.existed = ex]
                             /\ UNCHANGED repo_ensured

\* another process creates a repo
Creator(repo) ==
    /\ repo \notin github
    /\ github' = github \cup {repo}
    /\ EnvStep
    /\ UNCHANGED <<repo_exists_cache, repo_ensured, ens>>

InitEnsure == InitBase({0}) /\ github \in SUBSET EnsureTargets

NextEnsure ==
    \/ \E repo \in EnsureTargets : EnsureRepo(repo)
    \/ GhCreatePost
    \/ GhCreateRetry
    \/ \E repo \in EnsureTargets : Creator(repo)

SpecEnsure == InitEnsure /\ [][NextEnsure]_vars

\* time passes while main() waits before a page request (time.sleep, and
\* whatever the steps before it took)
Tick ==
    /\ pc \in {"series_fetch", "fetch"}
    /\ clock < MaxClock
    /\ clock' = clock + 1
    /\ UNCHANGED <<poolVars, state, persisted, pc, loc, buf, last, lastGet, covered, nops>>
    /\ UNCHANGED ghVars

\* main() under a wall clock
NextBudget == MainSteps \/ Yield(FALSE) \/ Tick

SpecBudget == Init /\ [][NextBudget]_vars

\* ===================================================================== claims
LogIdx(ev) == {i \in 1..Len(last.log) : last.log[i].ev = ev}
OpenRepos == DOMAIN writers

\* C2: the pool never holds more than max_open_repos writers: neither the
\* writers dict nor open_order grows past it, whatever operations are called.
PoolBound ==
    /\ Cardinality(DOMAIN writers) <= MAX_OPEN_REPOS
    /\ Len(open_order) <= MAX_OPEN_REPOS

\* the pool is full right after a get that had to evict a writer
PoolBoundWitness ==
    /\ last.op = "get"
    /\ last.raised = "none"
    /\ LogIdx("evict") # {}
    /\ Cardinality(DOMAIN writers) = MAX_OPEN_REPOS

\* C3: a get of a repo that is not open, with the pool full, evicts exactly one
\* writer, the one whose most recent get is the oldest; a get of an open repo,
\* or with room in the pool, evicts nothing.
IsLRU(ev) == ev \in DOMAIN writers /\ \A r \in DOMAIN writers : lastGet[ev] <= lastGet[r]

HandlerRan(log) ==
    \E i \in 1..Len(log) :
        log[i].ev = "discard" /\ (i <= 2 \/ log[i - 2].ev # "evict")

LRUEviction ==
    [][ (/\ last'.op \in {"get", "yield_item"}
         /\ nops' = nops + 1
         /\ ~HandlerRan(last'.log)) =>
          LET repo == last'.repo
          IN IF repo \in DOMAIN writers
             THEN DOMAIN writers' = DOMAIN writers
             ELSE IF Cardinality(DOMAIN writers) < MAX_OPEN_REPOS
             THEN DOMAIN writers' = DOMAIN writers \cup {repo}
             ELSE \E ev \in DOMAIN writers :
                     /\ IsLRU(ev)
                     /\ DOMAIN writers' =
                           IF last'.raised = "none"
                           THEN (DOMAIN writers \ {ev}) \cup {repo}
                           ELSE DOMAIN writers \ {ev}
      ]_vars

\* a get evicted a writer that was not the first one opened: its recency had
\* been refreshed, or an older one had been refreshed before it
LRUEvictionWitness ==
    /\ last.op = "get"
    /\ \E i \in LogIdx("evict") : lastGet[last.log[i].repo] > 1

\* C4: a writer leaves the pool, and its working copy is removed, only after a
\* forced flush of that writer has run; when that flush succeeds the writer
\* has no pending path left.
FlushedThenDiscarded(log, r) ==
    \E i \in 2..Len(log) :
        /\ log[i].ev = "discard" /\ log[i].repo = r
        /\ log[i - 1].ev = "flush" /\ log[i - 1].repo = r
        /\ log[i - 1].force /\ log[i - 1].gate
        /\ log[i - 1].ok => log[i].n = 0

FlushBeforeDiscard ==
    [][ /\ \A r \in (DOMAIN writers) \ (DOMAIN writers') : FlushedThenDiscarded(last'.log, r)
        /\ \A r \in DOMAIN writers :
              (r \in DOMAIN writers' /\ writers[r].dir /\ ~writers'[r].dir)
                 => FlushedThenDiscarded(last'.log, r)
      ]_vars

\* a writer with pending paths was evicted and its forced flush pushed them
FlushBeforeDiscardWitness ==
    \E i \in LogIdx("discard") :
        /\ last.log[i].ok
        /\ last.log[i - 1].n > 0
        /\ last.log[i - 1].changed
        /\ last.log[i].repo \notin DOMAIN writers

\* C5: a failed flush does not lose pending data: every file a writer has
\* written into its working copy is in the backend or is still pending, so no
\* later flush or close clears it without a successful push.
NoSilentDrop ==
    \A r \in DOMAIN writers :
        writers[r].dir =>
            \A p \in Paths :
                (writers[r].wt[p] # 0 /\ remote[r][p] # writers[r].wt[p])
                    => p \in SetOf(writers[r].pending)

\* C6: maybe_flush enters the commit step iff force or pending >= COMMIT_EVERY_FILES;
\* when it does and returns, every pending path is in the backend and the
\* pending list is empty.
FlushDelivers ==
    \A i \in LogIdx("flush") :
        LET e == last.log[i]
        IN /\ e.gate <=> (e.force \/ e.n >= COMMIT_EVERY_FILES)
           /\ (e.gate /\ e.ok) =>
                 /\ \A p \in e.paths : remote[e.repo][p] # 0
                 /\ e.repo \in DOMAIN writers => writers[e.repo].pending = <<>>

\* C7: a forced flush of a writer with no pending path commits nothing and
\* pushes nothing.
EmptyFlushIsNoop ==
    \A i \in LogIdx("flush") :
        last.log[i].n = 0 => (last.log[i].attempts = 0 /\ ~last.log[i].changed)

\* C10: the index of every (kind, scope) starts at 1, never decreases, rises
\* by exactly 1 at a time, and rises only in a step that force-flushed the
\* writer of the previous index without error and removed it from the pool.
FlushedOk(log, r) ==
    \E i \in 1..Len(log), j \in 1..Len(log) :
        /\ i < j
        /\ log[i].ev = "flush" /\ log[i].repo = r /\ log[i].force /\ log[i].gate /\ log[i].ok
        /\ log[j].ev = "bump" /\ log[j].repo = r

RolloverMonotonic ==
    /\ \A k \in TrackerKeys : TrackerIndex(state.rollover, k[1], k[2]) = 1
    /\ [][ \A k \in TrackerKeys :
             LET i == TrackerIndex(state.rollover, k[1], k[2])
                 j == TrackerIndex(state'.rollover, k[1], k[2])
             IN /\ j >= i
                /\ j # i =>
                     /\ j = i + 1
                     /\ TrackerRepo(state.rollover, k[1], k[2]) \in DOMAIN writers
                     /\ TrackerRepo(state.rollover, k[1], k[2]) \notin DOMAIN writers'
                     /\ FlushedOk(last'.log, TrackerRepo(state.rollover, k[1], k[2]))
         ]_vars

\* a rollover happened: an index is 2 and the record went to the new repo
RolloverMonotonicWitness ==
    /\ LogIdx("bump") # {}
    /\ \E k \in TrackerKeys :
          /\ TrackerIndex(state.rollover, k[1], k[2]) = 2
          /\ TrackerRepo(state.rollover, k[1], k[2]) \in DOMAIN writers

\* C1: every record of the pages before the persisted cursor of a category
\* is in the backend of some repo of its kind.
CheckpointInvariant ==
    \A cat \in Cats : \A rel \in covered[cat] :
        \E r \in Repos : r[1] = rel.kind /\ remote[r][rel.path] # 0

SealedAtThreshold ==
    \A r \in DOMAIN writers :
        r # SERIES_REPO => writers[r].files_written <= MAX_FILES_PER_REPO

\* C11: a run started after a kill resumes from the last saved state: the
\* loaded state equals the state of the last save_state, cursor, page, total
\* and rollover table alike; the cursor of a category stays as loaded until
\* that category's crawl runs, and the first page request of a crawl function
\* sends exactly the stored cursor.
CheckpointDurability ==
    [][ /\ (last'.op = "new_run" /\ nops' = nops + 1 /\ persisted.exists)
              => state' = persisted.st
        /\ \A c \in Cats :
              (state'.cursor[c] # state.cursor[c] /\ last'.op # "new_run") => loc.cat = c
        /\ (last'.op = "fetch" /\ last.op \in {"series_done", "crawl_end"}) =>
              /\ last'.log[1].n = state.cursor[loc.cat]
              /\ loc.page = state.page[loc.cat]
              /\ loc.total = state.total[loc.cat]
      ]_vars

\* a run has just started from a state file saved after the first events page
CheckpointDurabilityWitness ==
    /\ nops = 1
    /\ last.op = "new_run"
    /\ persisted.exists
    /\ persisted.st.cursor["events"] = 1
    /\ persisted.st.page["events"] = 1
    /\ state.cursor["events"] = 1

\* C12: the persisted cursor of a category keeps its last non-null value
\* when a page comes back empty and when the category's loop ends: neither the
\* save after an empty page nor the save at the end of the crawl function
\* resets it to none.
CursorPreserved ==
    [][ \A c \in Cats :
          (/\ persisted.exists
           /\ persisted.st.cursor[c] # 0
           /\ \/ last'.op = "crawl_end"
              \/ last'.op = "save_page" /\ last'.log[1].n = 0)
            => persisted'.st.cursor[c] # 0
      ]_vars

\* C13: a page with zero records ends the category for this run: after the
\* save that follows an empty page no further page of the category is fetched.
EmptyPageEndsCategory ==
    (last.op = "save_page" /\ last.log[1].n = 0) => pc # "fetch"

\* C14: no page request is issued at a clock value past the time budget
\* minus the safety buffer.
FetchWithinBudget ==
    \A i \in LogIdx("fetch") : last.log[i].at <= TIME_BUDGET - SAFETY_BUFFER

\* C15: a failed page request puts only its own category in error: the run
\* goes on with the next category (or, after the last one, with the final
\* flush and save).
FetchErrorIsolated ==
    (last.op = "fetch" /\ last.raised # "none") => pc \in {"fetch", "flush_all"}

\* C16: when an exception has left a crawl loop, main flushes every open
\* writer and then saves the crawl state before it lets the error out.
EmergencyCheckpoint ==
    [][ (/\ pc = "finally"
         /\ pc' = "exited"
         /\ last.op \in {"fetch", "yield_item"}
         /\ last.raised # "none")
          => /\ \A r \in DOMAIN writers :
                   \E i \in 1..Len(last'.log) :
                       /\ last'.log[i].ev = "flush"
                       /\ last'.log[i].repo = r
                       /\ last'.log[i].force
             /\ persisted' = SaveState(state)
      ]_vars

\* C17: when the create request of ensure_repo was answered "already exists"
\* (422 for a repo that a concurrent creator made first), ensure_repo returns
\* success and marks the repo ensured.
EnsureToleratesExists ==
    (ens.pc = "idle" /\ ens.post = 422 /\ ens.existed)
        => (ens.result = "ok" /\ ens.repo \in repo_ensured)

\* C18: after a path has been written twice to a writer, the next flush that
\* commits and returns leaves the path in the backend with the content of the
\* later write (a tree holds one entry per path).
IdempotentWrite ==
    [][ \A i \in 1..Len(last'.log) :
          (/\ last'.op = "maybe_flush"
           /\ nops' = nops + 1
           /\ last'.log[i].ev = "flush"
           /\ last'.log[i].gate
           /\ last'.log[i].ok
           /\ writers[WRITE_REPO].files_written >= 2
           /\ WRITE_PATH \in last'.log[i].paths)
            => remote'[WRITE_REPO][WRITE_PATH] = writers[WRITE_REPO].wt[WRITE_PATH]
      ]_vars

\* C19: a writer commits exactly when its pending count reaches
\* COMMIT_EVERY_FILES after a write, and once more in the flush_all at the
\* end of the run; a commit puts its pending paths in the backend, no flush
\* takes a file out of the backend, the final flush leaves nothing pending
\* and the rollover table stays as it is: every written record is in the
\* backend at the end of the run.
RunFlushes(log) == {i \in 1..Len(log) : log[i].ev = "flush"}

BatchFlush ==
    [][ (last'.op \in {"yield_item", "flush_all"} /\ last' # last) =>
          /\ \A i \in RunFlushes(last'.log) :
                LET e == last'.log[i]
                IN /\ ~e.force => (e.gate <=> e.n >= COMMIT_EVERY_FILES)
                   /\ (e.gate /\ e.ok) => \A p \in e.paths : remote'[e.repo][p] # 0
          /\ \A r \in Repos : \A p \in Paths : remote[r][p] # 0 => remote'[r][p] # 0
          /\ (last'.op = "flush_all" /\ last'.raised = "none") =>
                \A r \in DOMAIN writers' : writers'[r].pending = <<>>
          /\ state'.rollover = state.rollover
      ]_vars

\* C20: the pool holds at most one open writer per repo name: no name is
\* twice in open_order, the names of open_order are the keys of writers, and
\* the writer kept under a name was made for that name, so the writers that
\* get returns for two different names are different writers.
SingleWriterPerSink ==
    /\ \A i, j \in 1..Len(open_order) : i # j => open_order[i] # open_order[j]
    /\ SetOf(open_order) = DOMAIN writers
    /\ \A r \in DOMAIN writers : writers[r].repo = r
    /\ \A a, b \in DOMAIN writers : a # b => writers[a] # writers[b]

\* two writers are open after a get, one of them reached by a repeated get
SingleWriterPerSinkWitness ==
    /\ last.op = "get"
    /\ last.log = <<>>
    /\ Cardinality(DOMAIN writers) = 2
    /\ last.repo \in DOMAIN writers

\* C21: the categories run in the order series, events, markets: the events
\* crawl starts only when every series record has been yielded, the markets
\* crawl starts only when the events loop has been left, and a page request
\* is for the series (before both) or for the category whose crawl is running.
CategoryOrder ==
    [][ /\ (loc'.cat = "events" /\ loc.cat # "events")
              => (loc.cat = "none" /\ pc = "series_items" /\ buf.todo = <<>>)
        /\ (loc'.cat = "markets" /\ loc.cat # "markets")
              => (loc.cat = "events" /\ pc = "end")
        /\ (last'.op = "fetch" /\ pc' # pc)
              => \/ pc = "series_fetch" /\ loc.cat = "none"
                 \/ pc = "fetch" /\ loc.cat \in Cats
      ]_vars

\* the first markets page is about to be requested, after events records were crawled
CategoryOrderWitness ==
    /\ pc = "fetch"
    /\ loc.cat = "markets"
    /\ last.op = "crawl_end"
    /\ state.total["events"] > 0

\* C22: on a clean end of the crawl loops the final save follows a flush_all
\* that left nothing pending, and main then returns with no writer open.
CleanExit ==
    [][ /\ (last'.op = "final_save" /\ pc = "final_save") =>
              /\ last.op = "flush_all" /\ last.raised = "none"
              /\ \A r \in DOMAIN writers : writers[r].pending = <<>>
        /\ (pc = "finally" /\ last.op = "final_save" /\ pc' = "exited") =>
              /\ last'.raised = "none"
              /\ writers' = EmptyDict
              /\ open_order' = <<>>
      ]_vars

\* C23: a page request that raises leaves the progress of its category as it
\* was: the in-memory and the persisted state and the locals of the crawl
\* function are unchanged.
FailedFetchKeepsProgress ==
    [][ (last'.op = "fetch" /\ last'.raised # "none" /\ pc' # pc) =>
            /\ state' = state
            /\ persisted' = persisted
            /\ loc' = loc
      ]_vars

\* a request for the second events page has failed
FailedFetchKeepsProgressWitness ==
    /\ last.op = "fetch"
    /\ last.raised = "RuntimeError"
    /\ loc.cat = "events"
    /\ state.cursor["events"] = 1
    /\ persisted.exists /\ persisted.st.cursor["events"] = 1
    /\ last.log[1].n = 1

\* ------------------------------------------ save_state, one system call at a time
SaveStep == UNCHANGED <<poolVars, state, persisted, pc, loc, buf, last, lastGet, covered,
                        nops, clock, github, repo_exists_cache, repo_ensured, ens>>

\* save_state(state) up to open(tmp, "w"): the temporary file is created or
\* truncated
SaveOpen(obj) ==
    /\ saver.pc = "idle"
    /\ files' = [files EXCEPT ![WithSuffix(STATE_FILE)] = <<>>]
    /\ saver' = [pc |-> "open", obj |-> obj, prev |-> files[STATE_FILE]]
    /\ SaveStep

\* json.dump: the next chunk of the text reaches the temporary file
SaveDump ==
    /\ saver.pc = "open"
    /\ LET tmp == WithSuffix(STATE_FILE)
           text == Serialize(saver.obj)
       IN /\ Len(files[tmp]) < Len(text)
          /\ files' = [files EXCEPT ![tmp] = Append(@, text[Len(@) + 1])]
    /\ UNCHANGED saver
    /\ SaveStep

\* the with block ends and tmp.replace(path) renames the temporary file
SaveReplace ==
    /\ saver.pc = "open"
    /\ LET tmp == WithSuffix(STATE_FILE)
       IN /\ Len(files[tmp]) = Len(Serialize(saver.obj))
          /\ files' = [[files EXCEPT ![STATE_FILE] = files[tmp]] EXCEPT ![tmp] = NoFile]
    /\ saver' = [saver EXCEPT !.pc = "idle"]
    /\ SaveStep

\* the process is killed inside atomic_write_json
SaveCrash ==
    /\ saver.pc = "open"
    /\ saver' = [saver EXCEPT !.pc = "crashed"]
    /\ UNCHANGED files
    /\ SaveStep

\* the next run starts: load_state reads the state file
SaveRestart ==
    /\ saver.pc = "crashed"
    /\ saver' = [saver EXCEPT !.pc = "idle"]
    /\ UNCHANGED files
    /\ SaveStep

NextSave ==
    \/ \E obj \in Docs : SaveOpen(obj)
    \/ SaveDump
    \/ SaveReplace
    \/ SaveCrash
    \/ SaveRestart

SpecSave == Init /\ [][NextSave]_vars

\* C25: at every instant, a crash inside the save included, the state file
\* is absent or holds a complete document, and it is the snapshot that was
\* there when the save began or the one being saved, never a partial text.
AtomicSave ==
    /\ files[STATE_FILE] = NoFile \/ Complete(files[STATE_FILE])
    /\ saver.pc # "idle" => files[STATE_FILE] = saver.prev
    /\ (saver.pc = "idle" /\ saver.obj # 0) =>
           files[STATE_FILE] \in {saver.prev, Serialize(saver.obj)}

\* the process died after the whole text was written and before the rename,
\* with an earlier snapshot in the state file
AtomicSaveWitness ==
    /\ saver.pc = "crashed"
    /\ files[WithSuffix(STATE_FILE)] = Serialize(saver.obj)
    /\ Complete(files[STATE_FILE])
    /\ files[STATE_FILE] # Serialize(saver.obj)

\* ------------------------------------- RepoRolloverTracker, one call at a time
TrackerStep == UNCHANGED <<poolVars, runVars, lastGet, nops, envVars>>

TrackerLast(op, kind, scope, c) ==
    [op |-> op, repo |-> SERIES_REPO, raised |-> "none", log |-> <<>>,
     key |-> <<kind, scope>>, ret |-> c.ret]

CallIndex(kind, scope) ==
    LET c == IndexCall(state.rollover, kind, scope)
    IN /\ state' = [state EXCEPT !.rollover = c.roll]
       /\ last' = TrackerLast("index", kind, scope, c)
       /\ TrackerStep

CallRepo(kind, scope) ==
    LET c == RepoCall(state.rollover, kind, scope)
    IN /\ state' = [state EXCEPT !.rollover = c.roll]
       /\ last' = TrackerLast("repo", kind, scope, c)
       /\ TrackerStep

CallBump(kind, scope) ==
    /\ TrackerIndex(state.rollover, kind, scope) <= MaxIndex
    /\ LET c == BumpCall(state.rollover, kind, scope)
       IN /\ state' = [state EXCEPT !.rollover = c.roll]
          /\ last' = TrackerLast("bump", kind, scope, c)
          /\ TrackerStep

NextTracker ==
    \/ \E key \in TrackerKeys : CallIndex(key[1], key[2])
    \/ \E key \in TrackerKeys : CallRepo(key[1], key[2])
    \/ \E key \in TrackerKeys : CallBump(key[1], key[2])

SpecTracker == Init /\ [][NextTracker]_vars

\* C26: a call of index or repo leaves the rollover table as it was, for a
\* key without an entry too (index answers 1, repo names index 1, and the key
\* still has no entry); a call of bump changes its own key only.
RoutingSideEffectFree ==
    [][/\ last'.op \in {"index", "repo"} =>
            /\ state'.rollover = state.rollover
            /\ state.rollover[last'.key] = 0 =>
                  /\ state'.rollover[last'.key] = 0
                  /\ last'.op = "index" => last'.ret = 1
                  /\ (last'.op = "repo" /\ last'.key[1] # "Series") =>
                        last'.ret = <<last'.key[1], last'.key[2], 1>>
       /\ last'.op = "bump" =>
            /\ state'.rollover[last'.key] = last'.ret
            /\ \A k \in TrackerKeys \ {last'.key} :
                  state'.rollover[k] = state.rollover[k]
       /\ state'.rollover # state.rollover => last'.op = "bump"]_vars

\* index was called for a key without an entry while another key has one
RoutingSideEffectFreeWitness ==
    /\ last.op = "index"
    /\ last.ret = 1
    /\ state.rollover[last.key] = 0
    /\ \E k \in TrackerKeys : state.rollover[k] >= 2

\* C27: whatever the rollover table holds, repo("Series", scope) is the
\* series sink, a name without an index, and no operation gives the series
\* category an entry in the table.
SeriesSinkFixed ==
    /\ \A roll \in [TrackerKeys -> 0..MaxIndex], s \in Scopes \cup {"Series"} :
          /\ RepoCall(roll, "Series", s).ret = SERIES_REPO
          /\ RepoCall(roll, "Series", s).roll = roll
    /\ Len(SERIES_REPO) = 1
    /\ \A k \in TrackerKeys : k[1] = "Series" => state.rollover[k] = 0
    /\ \A rel \in Rels :
          rel.kind = "Series" => TargetRepoForRelpath(rel, state.rollover) = SERIES_REPO

\* the rollover signal came for the series writer: the handler closed it and
\* re-raised without a bump
SeriesSinkFixedWitness ==
    /\ last.op = "yield_item"
    /\ last.repo = SERIES_REPO
    /\ last.raised = "RolloverRequested"
    /\ SERIES_REPO \notin DOMAIN writers

\* ------------------------------------------- events_relpath, markets_relpath
\* A record o is [status, ticker, alt]: the fields the partition and the file
\* name are computed from; NoKey stands for a key the record does not have and
\* None for a null value.  The date and shard directories of the path do not
\* depend on the status and are left out.
NoKey == "<no key>"
None == "<null>"
OPEN_STATUSES == {"open", "active", "trading", "live"}
CLOSED_STATUSES == {"closed", "settled", "finalized", "determined"}
RawStatuses ==
    {NoKey, None, "", "open", "OPEN", "active", "Active", "trading", "live",
     "closed", "Settled", "finalized", "determined", "paused"}
RawTickers == {NoKey, "", "KX1", "k x"}
Records == [status : RawStatuses, ticker : RawTickers, alt : {NoKey, "KX2"}]

\* str.lower() on the statuses of the model
Lower(v) ==
    CASE v = "OPEN" -> "open"
      [] v = "Active" -> "active"
      [] v = "Settled" -> "settled"
      [] OTHER -> v

\* o.get(key) or "": a missing key, null and "" all give ""
GetOrEmpty(v) == IF v \in {NoKey, None, ""} THEN "" ELSE v

\* sanitize on the tickers of the model
Sanitize(v) == IF v = "k x" THEN "k_x" ELSE v

\* pick_ticker: the first key with a truthy value, else a hash of the record
PickTicker(o) ==
    IF GetOrEmpty(o.ticker) # "" THEN Sanitize(o.ticker)
    ELSE IF GetOrEmpty(o.alt) # "" THEN Sanitize(o.alt)
    ELSE "hash"

EventsRelpath(o) ==
    LET status == Lower(GetOrEmpty(o.status))
    IN [kind |-> "events",
        part |-> IF status \in OPEN_STATUSES THEN "open" ELSE "closed",
        t |-> PickTicker(o)]

MarketsRelpath(o) ==
    LET status == Lower(GetOrEmpty(o.status))
    IN [kind |-> "markets",
        part |-> IF status = "open" THEN "open" ELSE "closed",
        t |-> PickTicker(o)]

RelpathLast(op, o, rel) ==
    [op |-> op, repo |-> SERIES_REPO, raised |-> "none", log |-> <<>>, o |-> o, rel |-> rel]

CallEventsRelpath(o) ==
    /\ last' = RelpathLast("events_relpath", o, EventsRelpath(o))
    /\ UNCHANGED <<poolVars, runVars, state, lastGet, nops, envVars>>

CallMarketsRelpath(o) ==
    /\ last' = RelpathLast("markets_relpath", o, MarketsRelpath(o))
    /\ UNCHANGED <<poolVars, runVars, state, lastGet, nops, envVars>>

NextRelpath ==
    \/ \E o \in Records : CallEventsRelpath(o)
    \/ \E o \in Records : CallMarketsRelpath(o)

SpecRelpath == Init /\ [][NextRelpath]_vars

\* C28: events_relpath and markets_relpath place a record in the "closed"
\* partition only when its status is one that means closed or settled; a
\* record whose status is missing, null, empty or not recognised is placed in
\* the "open" partition.
PartitionDefaultOpen ==
    last.op \in {"events_relpath", "markets_relpath"} =>
        LET status == Lower(GetOrEmpty(last.o.status))
        IN /\ last.rel.part = "closed" => status \in CLOSED_STATUSES
           /\ status \notin (OPEN_STATUSES \cup CLOSED_STATUSES) => last.rel.part = "open"

\* C29: every operation on the pool (get on an open or a new repo, with or
\* without eviction, write, flush, flush_all, close_all, yield_item with or
\* without a rollover, whether it returns or raises) leaves open_order with
\* as many entries as writers has keys, each key exactly once.
PoolBookkeeping ==
    [][/\ Len(open_order') = Cardinality(DOMAIN writers')
       /\ \A r \in DOMAIN writers' :
             Cardinality({i \in 1..Len(open_order') : open_order'[i] = r}) = 1
       /\ \A i \in 1..Len(open_order') : open_order'[i] \in DOMAIN writers'
      ]_vars

\* yield_item ran the rollover handler: the full writer left the pool and the
\* writer of the next index is in it, beside another open writer
PoolBookkeepingWitness ==
    /\ last.op = "yield_item"
    /\ \E i \in 1..Len(last.log) : last.log[i].ev = "bump"
    /\ last.repo \notin DOMAIN writers
    /\ Cardinality(DOMAIN writers) = 2

\* C30: the step that saves a page raises the persisted page counter of its
\* category by 1 and the persisted total by the number of records of the
\* page, and leaves the other category's counters alone; no other step, the
\* end of a crawl (which clears the cursor) and the start of the next run
\* included, changes a persisted counter, and the next run loads them.
ProgressCounters ==
    [][/\ \A c \in Cats :
             /\ persisted'.st.page[c] >= persisted.st.page[c]
             /\ persisted'.st.total[c] >= persisted.st.total[c]
       /\ (pc = "items" /\ last'.op = "save_page") =>
             /\ persisted'.exists
             /\ persisted'.st.page[loc.cat] = persisted.st.page[loc.cat] + 1
             /\ persisted'.st.total[loc.cat] = persisted.st.total[loc.cat] + Len(buf.items)
             /\ \A c \in Cats \ {loc.cat} :
                   /\ persisted'.st.page[c] = persisted.st.page[c]
                   /\ persisted'.st.total[c] = persisted.st.total[c]
       /\ ~(pc = "items" /\ last'.op = "save_page") =>
             /\ persisted'.st.page = persisted.st.page
             /\ persisted'.st.total = persisted.st.total
       /\ (pc = "end" /\ last'.op = "crawl_end") => persisted'.st.cursor[loc.cat] = 0
       /\ last'.op = "new_run" =>
             /\ state'.page = persisted.st.page
             /\ state'.total = persisted.st.total
      ]_vars

\* the second run, started after a run that went through to the end, has
\* saved an events page on top of the first run's count
ProgressCountersWitness ==
    /\ nops = 1
    /\ last.op = "save_page"
    /\ loc.cat = "events"
    /\ state.first_full_done
    /\ persisted.st.page["events"] >= 2
    /\ persisted.st.total["events"] >= 2
    /\ persisted.st.page["markets"] >= 1

\* C31: the persisted first_full_done turns true only at the save that
\* follows a flush_all that returned, flush_all runs only when the markets
\* crawl has returned, the markets crawl starts only when the events crawl
\* has returned, the events crawl only when the series crawl has, and a new
\* run starts again at the series; the flag in memory is never ahead of the
\* persisted one, so no page save of a run that stops earlier can persist it.
FirstFullDoneAfterAll ==
    [][/\ (persisted'.st.first_full_done /\ ~persisted.st.first_full_done) =>
             /\ pc = "final_save"
             /\ last.op = "flush_all"
             /\ last.raised = "none"
       /\ state'.first_full_done => persisted'.st.first_full_done
       /\ (pc' = "final_save" /\ pc # "final_save") =>
             /\ pc = "flush_all"
             /\ last'.op = "flush_all"
             /\ last'.raised = "none"
       /\ (pc' = "flush_all" /\ pc # "flush_all") =>
             /\ pc = "end"
             /\ loc.cat = "markets"
             /\ last'.raised = "none"
       /\ (loc'.cat = "markets" /\ loc.cat # "markets") =>
             /\ pc = "end"
             /\ loc.cat = "events"
             /\ last'.raised = "none"
       /\ (loc'.cat = "events" /\ loc.cat # "events") =>
             /\ pc = "series_items"
             /\ buf.todo = <<>>
       /\ last'.op = "new_run" => (pc' = "series_fetch" /\ loc'.cat = "none")
      ]_vars

\* the final save of a run has just persisted the flag, after pages of both
\* categories were saved
FirstFullDoneAfterAllWitness ==
    /\ last.op = "final_save"
    /\ pc = "finally"
    /\ persisted.st.first_full_done
    /\ persisted.st.page["events"] >= 1
    /\ persisted.st.page["markets"] >= 1

\* C24 (as stated): a flush that commits issues at most PUSH_ATTEMPTS push
\* attempts, stops at the first attempt that succeeds, raises the error after
\* the last failed attempt, and follows every rejected (non-fast-forward)
\* push by a pull --rebase and then by a retried push.
BoundedPushRetryAlways ==
    (last.op = "push_flush" /\ last.log[1].attempts > 0) =>
        LET e == last.log[1]
            plan == last.plan
        IN /\ e.attempts \in 1..PUSH_ATTEMPTS
           /\ \A k \in 1..(e.attempts - 1) : plan[k] # "ok"
           /\ e.ok <=> plan[e.attempts] = "ok"
           /\ ~e.ok => (e.attempts = PUSH_ATTEMPTS /\ last.raised = "CalledProcessError")
           /\ e.pulls = Cardinality({k \in 1..e.attempts : plan[k] = "nff"})
           /\ \A k \in 1..e.attempts : plan[k] = "nff" => k < e.attempts

\* C24: a flush that commits issues at most PUSH_ATTEMPTS push attempts,
\* stops at the first attempt that succeeds and raises the error after the
\* last failed attempt; every rejected (non-fast-forward) push is followed by
\* a pull --rebase, and by a retried push when it was not the last attempt.
BoundedPushRetry ==
    (last.op = "push_flush" /\ last.log[1].attempts > 0) =>
        LET e == last.log[1]
            plan == last.plan
        IN /\ e.attempts \in 1..PUSH_ATTEMPTS
           /\ \A k \in 1..(e.attempts - 1) : plan[k] # "ok"
           /\ e.ok <=> plan[e.attempts] = "ok"
           /\ ~e.ok => (e.attempts = PUSH_ATTEMPTS /\ last.raised = "CalledProcessError")
           /\ e.pulls = Cardinality({k \in 1..e.attempts : plan[k] = "nff"})
           /\ \A k \in 1..e.attempts :
                 (plan[k] = "nff" /\ k < PUSH_ATTEMPTS) => k < e.attempts

\* a flush whose first push was rejected and whose third attempt failed too
BoundedPushRetryWitness ==
    /\ last.op = "push_flush"
    /\ last.raised = "CalledProcessError"
    /\ last.log[1].attempts = PUSH_ATTEMPTS
    /\ last.log[1].pulls >= 1
    /\ last.plan[1] = "nff"
====
